---- MODULE Spec2Model ----
(***************************************************************************)
(* Model of the transaction report tool: the balance-delta resolvers       *)
(* findDeltaSOL / findDeltaSPL, the party heuristic inferParties           *)
(* (utils/blockchain), and the fetch-and-analyse handler handleFetch of    *)
(* App.tsx with the React state it reads and writes.                       *)
(*                                                                         *)
(* JavaScript values: `undefined` of a string-typed field is the string    *)
(* Undefined, `null` of an object is the record Null.  Array indices are   *)
(* 0-based as in the source; sequences are 1-based, so element i of the    *)
(* source is seq[i + 1].  Amounts are the integers the decimal strings     *)
(* denote.                                                                 *)
(***************************************************************************)
EXTENDS Integers, Sequences, FiniteSets, TLC

VARIABLES
    input,      \* App state: text of the transaction field
    recipient,  \* App state: text of the recipient field (trimmed on change)
    loading,    \* App state
    error,      \* App state: string | null
    tx,         \* App state: GetTransactionResponse | null
    analysis,   \* App state: the report | null
    inflight,   \* rpcGetTransaction calls awaiting their outcome, each with the
                \* values its handleFetch closure captured
    fn,         \* resolver harness: which function is applied
    meta,       \* resolver harness: GetTransactionMeta argument
    message,    \* resolver harness: TransactionMessage argument
    expected,   \* resolver harness: the optional recipient argument
    ret         \* resolver harness: the value returned, NotCalled before the call

appVars == <<input, recipient, loading, error, tx, analysis, inflight>>
harnessVars == <<fn, meta, message, expected, ret>>
vars == <<input, recipient, loading, error, tx, analysis, inflight,
          fn, meta, message, expected, ret>>

----------------------------------------------------------------------------
(* JavaScript value conventions *)

Undefined == "undefined"
Null == [null |-> TRUE]
NotCalled == [called |-> FALSE]

\* truthiness of a string | undefined: `if (recipient)`, `recipient || x`
Truthy(s) == s # Undefined /\ s # ""

\* a || b on strings
Or(a, b) == IF Truthy(a) THEN a ELSE b

\* arr[i] ?? 0 on a number array
NumAt(arr, i) == IF i >= 0 /\ i < Len(arr) THEN arr[i + 1] ELSE 0

\* message.accountKeys[i]?.pubkey
PubkeyAt(msg, i) ==
    IF i >= 0 /\ i < Len(msg.accountKeys) THEN msg.accountKeys[i + 1].pubkey ELSE Undefined

----------------------------------------------------------------------------
(* findDeltaSOL *)

\* variant: the scan covers the longer of the two balance arrays
SOLScanLen_Longest(m) ==
    IF Len(m.postBalances) > Len(m.preBalances) THEN Len(m.postBalances)
    ELSE Len(m.preBalances)

\* the loop bound `i < preBalances.length`
SOLScanLen(m) == Len(m.preBalances)

\* const delta = (postBalances[i] ?? 0) - (preBalances[i] ?? 0)
SOLDelta(m, i) == NumAt(m.postBalances, i) - NumAt(m.preBalances, i)

\* message.accountKeys[i]?.pubkey === recipient
SOLMatch(msg, i, rcp) == PubkeyAt(msg, i) = rcp

\* variant: a delta equal to the running best replaces it
SOLBetter_OrEqual(delta, bestDelta) == delta >= bestDelta

\* else if (delta > bestDelta)
SOLBetter(delta, bestDelta) == delta > bestDelta

RECURSIVE SOLLoop(_, _, _, _, _, _)
SOLLoop(m, msg, rcp, i, bestIdx, bestDelta) ==
    IF i >= SOLScanLen(m)
    THEN IF Truthy(rcp)
         THEN [index |-> -1, deltaLamports |-> 0]
         ELSE [index |-> bestIdx, deltaLamports |-> bestDelta]
    ELSE LET delta == SOLDelta(m, i) IN
         IF Truthy(rcp)
         THEN IF SOLMatch(msg, i, rcp)
              THEN [index |-> i, deltaLamports |-> delta]
              ELSE SOLLoop(m, msg, rcp, i + 1, bestIdx, bestDelta)
         ELSE IF SOLBetter(delta, bestDelta)
              THEN SOLLoop(m, msg, rcp, i + 1, i, delta)
              ELSE SOLLoop(m, msg, rcp, i + 1, bestIdx, bestDelta)

\* variant: a recipient that matches no account falls back to the best-delta scan
findDeltaSOL_Fallback(m, msg, rcp) ==
    LET r == SOLLoop(m, msg, rcp, 0, -1, 0) IN
    IF r.index = -1 THEN SOLLoop(m, msg, Undefined, 0, -1, 0) ELSE r

findDeltaSOL(m, msg, rcp) == SOLLoop(m, msg, rcp, 0, -1, 0)

----------------------------------------------------------------------------
(* findDeltaSPL *)

\* variant: pre entries are looked up by account index alone
TokenKey_IndexOnly(b) == <<b.accountIndex>>

\* const key = (b) => `${b.accountIndex}:${b.mint}`
TokenKey(b) == <<b.accountIndex, b.mint>>

Max(S) == CHOOSE x \in S : \A y \in S : y <= x

\* preMap.get(k) of new Map(pre.map(b => [key(b), b])): a later pair with the
\* same key replaces an earlier one; no pair gives undefined (Null here)
PreMapGet(pre, k) ==
    LET hits == {j \in 1..Len(pre) : TokenKey(pre[j]) = k} IN
    IF hits = {} THEN Null ELSE pre[Max(hits)]

\* A raw amount is a decimal string of an integer.  It is written as an integer
\* a: a < Pivot is the amount a itself, and Pivot + d is the amount 2^53 + d
\* (0 <= d < 2^53), the range a 32-bit integer cannot hold.  A Number is written
\* the same way.
Pivot == 2^30

\* the IEEE-754 double nearest to an integer, ties to the even significand:
\* every integer up to 2^53 is a double; from 2^53 to 2^54 the doubles are the
\* even integers, and an odd 2^53 + d lies midway between two of them, of
\* which the one with d a multiple of 4 has the even significand
Nearest(n) ==
    IF n <= Pivot THEN n
    ELSE LET d == n - Pivot IN
         IF d % 2 = 0 THEN n
         ELSE IF (d - 1) % 4 = 0 THEN n - 1 ELSE n + 1

\* Number(s) of a decimal string
Number(amount) == Nearest(amount)

\* Number(p?.uiTokenAmount.amount ?? 0)
SPLAmountPre(p) == IF p = Null THEN Number(0) ELSE Number(p.uiTokenAmount.amount)

\* const delta = amountPost - amountPre: the double nearest to the difference
SPLDelta(pre, pb) ==
    Nearest(Number(pb.uiTokenAmount.amount) - SPLAmountPre(PreMapGet(pre, TokenKey(pb))))

\* variant: only the owner is compared
SPLMatch_OwnerOnly(msg, pb, rcp) == pb.owner = rcp

\* owner === recipient || pubkey === recipient
SPLMatch(msg, pb, rcp) ==
    pb.owner = rcp \/ PubkeyAt(msg, pb.accountIndex) = rcp

\* variant: a delta equal to the running best (0 at first) replaces it
SPLBetter_OrEqual(delta, best) == delta >= (IF best = Null THEN 0 ELSE best.delta)

\* else if (delta > (best?.delta ?? 0))
SPLBetter(delta, best) == delta > (IF best = Null THEN 0 ELSE best.delta)

\* { accountIndex: pb.accountIndex, mint: pb.mint, decimals: dec, delta, owner }
SPLResult(pre, pb) ==
    [accountIndex |-> pb.accountIndex,
     mint         |-> pb.mint,
     decimals     |-> pb.uiTokenAmount.decimals,
     delta        |-> SPLDelta(pre, pb),
     owner        |-> pb.owner]

RECURSIVE SPLLoop(_, _, _, _, _, _)
SPLLoop(pre, post, msg, rcp, j, best) ==
    IF j > Len(post)
    THEN best
    ELSE LET pb == post[j] IN
         IF Truthy(rcp)
         THEN IF SPLMatch(msg, pb, rcp)
              THEN SPLResult(pre, pb)
              ELSE SPLLoop(pre, post, msg, rcp, j + 1, best)
         ELSE IF SPLBetter(SPLDelta(pre, pb), best)
              THEN SPLLoop(pre, post, msg, rcp, j + 1, SPLResult(pre, pb))
              ELSE SPLLoop(pre, post, msg, rcp, j + 1, best)

\* variant: with a recipient, a matching entry with a positive delta is preferred
\* to an earlier matching entry without one
findDeltaSPL_PositiveFirst(m, msg, rcp) ==
    LET pre == m.preTokenBalances
        post == m.postTokenBalances
        hits == {j \in 1..Len(post) : SPLMatch(msg, post[j], rcp)}
        gains == {j \in hits : SPLDelta(pre, post[j]) > 0}
        first(S) == CHOOSE j \in S : \A k \in S : j <= k
    IN  IF ~Truthy(rcp) THEN SPLLoop(pre, post, msg, rcp, 1, Null)
        ELSE IF gains # {} THEN SPLResult(pre, post[first(gains)])
        ELSE IF hits # {} THEN SPLResult(pre, post[first(hits)])
        ELSE Null

\* meta.preTokenBalances ?? [] and meta.postTokenBalances ?? []: an absent list is
\* the empty sequence
findDeltaSPL(m, msg, rcp) ==
    SPLLoop(m.preTokenBalances, m.postTokenBalances, msg, rcp, 1, Null)

----------------------------------------------------------------------------
(* inferParties *)

\* variant: the fee payer at index 0 is not skipped
FirstWritable_FromZero(keys) ==
    LET hits == {i \in 0..(Len(keys) - 1) : keys[i + 1].writable} IN
    IF hits = {} THEN Undefined
    ELSE keys[(CHOOSE i \in hits : \A j \in hits : i <= j) + 1].pubkey

\* keys.find((k, i) => i > 0 && k.writable)?.pubkey
FirstWritable(keys) ==
    LET hits == {i \in 1..(Len(keys) - 1) : keys[i + 1].writable} IN
    IF hits = {} THEN Undefined
    ELSE keys[(CHOOSE i \in hits : \A j \in hits : i <= j) + 1].pubkey

inferParties(msg) ==
    [sender    |-> PubkeyAt(msg, 0),
     recipient |-> FirstWritable(msg.accountKeys)]

----------------------------------------------------------------------------
(* parseSignature *)

\* A text is described by what precedes its first run of base58 characters
\* ("none", "space": only white space, "explorer": text ending in one of the
\* explorer paths solscan.io/tx/, explorer.solana.com/tx/, solanafm.com/tx/,
\* "other": any other text ending in a non-base58 character), the length of
\* that run, the name of its characters, and what follows the run ("none":
\* at most white space, "other": a non-base58 character and any text after it).
\* A string taken from the run is [id, len]: its first len characters; len 0 is
\* the empty string.
SigMinLen == 87
SigMaxLen == 88

EmptyString == [id |-> "", len |-> 0]

Min(a, b) == IF a <= b THEN a ELSE b

\* input.trim(), the early return for an empty text, then the regular
\* expression: the run has to start the trimmed text or follow an explorer
\* path, and the group takes at most SigMaxLen of its characters
parseSignature(text) ==
    IF text.lead \in {"none", "space"} /\ text.run = 0 THEN Null
    ELSE IF text.lead \in {"none", "space", "explorer"} /\ text.run >= SigMinLen
         THEN [id |-> text.id, len |-> Min(text.run, SigMaxLen)]
         ELSE Null

\* parseSignature(input) ?? ""
OrEmpty(m) == IF m = Null THEN EmptyString ELSE m

\* const signature = useMemo(() => parseSignature(input) ?? "", [input])
signature == OrEmpty(parseSignature(input))

\* buildExplorerUrl(signature)
buildExplorerUrl(sig) == <<"https://solscan.io/tx/", sig>>

\* res.blockTime ? toPLNDate(res.blockTime) : "-"
TimeOf(res) == IF res.blockTime # 0 THEN <<"pl-PL", res.blockTime>> ELSE <<"-">>

----------------------------------------------------------------------------
(* handleFetch: classification and report *)

LAMPORTS_PER_SOL == [unit |-> "LAMPORTS_PER_SOL"]

\* Math.pow(10, decimals)
Pow10(d) == [base |-> 10, exp |-> d]

\* n / d, kept as the quotient's two operands
Quotient(n, d) == [num |-> n, den |-> d]

\* variant: a zero token delta passes the gate
IsToken_NonNegative(spl) == spl # Null /\ spl.delta >= 0

\* if (spl && spl.delta > 0)
IsToken(spl) == spl # Null /\ spl.delta > 0

\* variant: a zero native delta passes the gate
IsNative_NonNegative(sol) == sol.deltaLamports >= 0

\* else if (sol.deltaLamports > 0)
IsNative(sol) == sol.deltaLamports > 0

\* variant: the address at the account index is preferred to the owner
Report_KeyBeforeOwner(spl, sol, msg, rcp) ==
    IF IsToken(spl)
    THEN [type |-> "spl", mint |-> spl.mint, amountRaw |-> spl.delta,
          decimals |-> spl.decimals,
          amountUi |-> Quotient(spl.delta, Pow10(spl.decimals)),
          recipient |-> Or(rcp, Or(PubkeyAt(msg, spl.accountIndex), spl.owner))]
    ELSE IF IsNative(sol)
    THEN [type |-> "sol", amountLamports |-> sol.deltaLamports,
          amountSOL |-> Quotient(sol.deltaLamports, LAMPORTS_PER_SOL),
          recipient |-> Or(rcp, PubkeyAt(msg, sol.index))]
    ELSE [type |-> "none", sender |-> inferParties(msg).sender,
          recipient |-> inferParties(msg).recipient]

\* variant: the explicit recipient is reported for an unclassified transaction
Report_ExplicitWhenUnknown(spl, sol, msg, rcp) ==
    IF IsToken(spl)
    THEN [type |-> "spl", mint |-> spl.mint, amountRaw |-> spl.delta,
          decimals |-> spl.decimals,
          amountUi |-> Quotient(spl.delta, Pow10(spl.decimals)),
          recipient |-> Or(rcp, Or(spl.owner, PubkeyAt(msg, spl.accountIndex)))]
    ELSE IF IsNative(sol)
    THEN [type |-> "sol", amountLamports |-> sol.deltaLamports,
          amountSOL |-> Quotient(sol.deltaLamports, LAMPORTS_PER_SOL),
          recipient |-> Or(rcp, PubkeyAt(msg, sol.index))]
    ELSE [type |-> "none", sender |-> inferParties(msg).sender,
          recipient |-> Or(rcp, inferParties(msg).recipient)]

\* variant: the native branch is tested before the token branch
Report_NativeFirst(spl, sol, msg, rcp) ==
    IF IsNative(sol)
    THEN [type |-> "sol", amountLamports |-> sol.deltaLamports,
          amountSOL |-> Quotient(sol.deltaLamports, LAMPORTS_PER_SOL),
          recipient |-> Or(rcp, PubkeyAt(msg, sol.index))]
    ELSE IF IsToken(spl)
    THEN [type |-> "spl", mint |-> spl.mint, amountRaw |-> spl.delta,
          decimals |-> spl.decimals,
          amountUi |-> Quotient(spl.delta, Pow10(spl.decimals)),
          recipient |-> Or(rcp, Or(spl.owner, PubkeyAt(msg, spl.accountIndex)))]
    ELSE [type |-> "none", sender |-> inferParties(msg).sender,
          recipient |-> inferParties(msg).recipient]

\* the `report` object built from the two resolver results
Report(spl, sol, msg, rcp) ==
    IF IsToken(spl)
    THEN [type |-> "spl", mint |-> spl.mint, amountRaw |-> spl.delta,
          decimals |-> spl.decimals,
          amountUi |-> Quotient(spl.delta, Pow10(spl.decimals)),
          recipient |-> Or(rcp, Or(spl.owner, PubkeyAt(msg, spl.accountIndex)))]
    ELSE IF IsNative(sol)
    THEN [type |-> "sol", amountLamports |-> sol.deltaLamports,
          amountSOL |-> Quotient(sol.deltaLamports, LAMPORTS_PER_SOL),
          recipient |-> Or(rcp, PubkeyAt(msg, sol.index))]
    ELSE [type |-> "none", sender |-> inferParties(msg).sender,
          recipient |-> inferParties(msg).recipient]

\* instructions.find((ix) => ix.parsed?.info)?.parsed?.info
FirstParsedInfo(instructions) ==
    LET hits == {j \in 1..Len(instructions) :
                    /\ instructions[j].parsed # Null
                    /\ instructions[j].parsed.info # Null} IN
    IF hits = {} THEN Null
    ELSE instructions[CHOOSE j \in hits : \A k \in hits : j <= k].parsed.info

\* the sender: the try block, and the catch block when the message has no
\* instructions array (find of undefined throws)
Sender(msg) ==
    IF "instructions" \notin DOMAIN msg THEN inferParties(msg).sender
    ELSE LET info == FirstParsedInfo(msg.instructions) IN
         IF info = Null THEN inferParties(msg).sender
         ELSE Or(info.source, Or(info.authority, Or(info.owner, inferParties(msg).sender)))

AssetOf(report) ==
    IF report.type = "spl"
    THEN [kind |-> "SPL", mint |-> report.mint, amount |-> report.amountUi,
          decimals |-> report.decimals]
    ELSE IF report.type = "sol"
    THEN [kind |-> "SOL", amount |-> report.amountSOL]
    ELSE [kind |-> "Unknown"]

\* the object passed to setAnalysis
Analysis(res, sig, rcp) ==
    LET msg == res.transaction.message
        spl == findDeltaSPL(res.meta, msg, Or(rcp, Undefined))
        sol == findDeltaSOL(res.meta, msg, Or(rcp, Undefined))
        report == Report(spl, sol, msg, rcp)
    IN  [signature   |-> sig,
         explorerUrl |-> buildExplorerUrl(sig),
         slot        |-> res.slot,
         time        |-> TimeOf(res),
         feeLamports |-> res.meta.fee,
         sender      |-> Sender(msg),
         recipient   |-> report.recipient,
         asset       |-> AssetOf(report)]

----------------------------------------------------------------------------
(* Bounded inputs *)

MaxKeys == 2    \* account keys per message
MaxBal  == 2    \* largest lamport balance
MaxPost == 2    \* entries of postTokenBalances
MaxPre  == 1    \* entries of preTokenBalances
MaxIx   == 2    \* instructions per message
MaxPartyKeys == 3   \* account keys per message given to inferParties
MaxRun  == 90   \* base58 characters in a text given to parseSignature
MaxOffset == 4  \* largest raw token amount is 2^53 + MaxOffset

Pubkeys == {"A", "B"}
Mints == {"M", "N"}
Amounts == {0, 1, 2}       \* raw token amounts of post entries
TokenIndexes == {0, 1}     \* accountIndex of a token balance entry

SeqsUpTo(S, n) == UNION {[1..k -> S] : k \in 0..n}

AccountMetaKey == [pubkey : Pubkeys, signer : BOOLEAN, writable : BOOLEAN]

\* keys whose flags are those of a plain transfer: key 0 signs, all are writable
PlainKeys(pks) ==
    [i \in 1..Len(pks) |-> [pubkey |-> pks[i], signer |-> (i = 1), writable |-> TRUE]]

\* a mint fixes the decimals of its balances; the account at an index holds one mint
DecimalsOf(mint) == IF mint = "M" THEN 6 ELSE 9
MintAt(i) == IF i = 0 THEN "M" ELSE "N"

TokenBalance(i, mt, o, a) ==
    [accountIndex |-> i, mint |-> mt, owner |-> o,
     uiTokenAmount |-> [amount |-> a, decimals |-> DecimalsOf(mt)]]

PostEntries ==
    {TokenBalance(i, MintAt(i), o, a) : i \in TokenIndexes, o \in {"A", Undefined}, a \in Amounts}

PreEntries == {TokenBalance(i, mt, Undefined, 1) : i \in TokenIndexes, mt \in Mints}

Meta(pre, post, preTok, postTok) ==
    [fee |-> 5000, preBalances |-> pre, postBalances |-> post,
     preTokenBalances |-> preTok, postTokenBalances |-> postTok]

Message(keys, ixs) == [accountKeys |-> keys, instructions |-> ixs]

----------------------------------------------------------------------------
(* The responses rpcGetTransaction delivers to the App *)

FetchKeyLists == {PlainKeys(pks) : pks \in {<<>>, <<"A">>, <<"A", "B">>}}

\* every account held 1 lamport before; it holds 0, 1 or 2 afterwards
FetchBalances(n) == {<<[i \in 1..n |-> 1], post>> : post \in [1..n -> {0, 1, 2}]}

FetchPostEntries == {e \in PostEntries : e.uiTokenAmount.amount \in {0, 1}}
FetchPreEntries == {e \in PreEntries : e.mint = MintAt(e.accountIndex)}

Response(sl, m, msg) ==
    [slot |-> sl, blockTime |-> 1700000000, meta |-> m,
     transaction |-> [message |-> msg]]

\* token balance lists as a node reports them: one entry per token account
OnePerAccount(S) ==
    {l \in SeqsUpTo(S, Cardinality(TokenIndexes)) :
        \A i, j \in 1..Len(l) : i # j => l[i].accountIndex # l[j].accountIndex}

\* responses that differ in balances and token balances
DeltaResponses ==
    {Response(1, Meta(b[1], b[2], preTok, postTok), Message(keys, <<>>)) :
        keys \in FetchKeyLists,
        b \in UNION {FetchBalances(n) : n \in 0..2},
        preTok \in OnePerAccount(FetchPreEntries),
        postTok \in OnePerAccount(FetchPostEntries)}

WellFormed(r) == Len(r.meta.preBalances) = Len(r.transaction.message.accountKeys)

\* parsed.info of an instruction
Infos ==
    {[source |-> s, authority |-> a, owner |-> o] :
        s \in {Undefined, "S"}, a \in {Undefined, "U"}, o \in {Undefined, "W"}}

Instructions ==
    {[parsed |-> Null], [parsed |-> [info |-> Null]]} \cup {[parsed |-> [info |-> i]] : i \in Infos}

\* responses that differ in instructions, and one without the instructions array
InstructionResponses ==
    {Response(2, Meta(<<1, 1>>, <<0, 1>>, <<>>, <<>>), Message(PlainKeys(<<"A", "B">>), ixs)) :
        ixs \in SeqsUpTo(Instructions, MaxIx)}
    \cup {Response(2, Meta(<<1, 1>>, <<0, 1>>, <<>>, <<>>),
                   [accountKeys |-> PlainKeys(<<"A", "B">>)])}

\* responses whose second account key is read-only
ReadOnlyKeyResponses ==
    {Response(3, [Meta(b[1], b[2], <<>>, <<>>) EXCEPT !.fee = 10000],
              Message(<<[pubkey |-> "A", signer |-> TRUE, writable |-> TRUE],
                        [pubkey |-> "B", signer |-> FALSE, writable |-> FALSE]>>, <<>>)) :
        b \in FetchBalances(2)}

Responses ==
    {r \in DeltaResponses : WellFormed(r)} \cup InstructionResponses
    \cup ReadOnlyKeyResponses
    \cup {Response(1, Null, Message(PlainKeys(<<"A", "B">>), <<>>))}

\* what the awaited call ends with: a result (a response or null) or an exception
Outcomes ==
    {[kind |-> "result", value |-> r] : r \in Responses}
    \cup {[kind |-> "result", value |-> Null]}
    \cup {[kind |-> "throw", message |-> m] : m \in {"", "Failed to fetch"}}

Texts ==
    {[lead |-> "none", run |-> 0, id |-> "", tail |-> "none"],
     [lead |-> "none", run |-> 86, id |-> "s0", tail |-> "none"],
     [lead |-> "none", run |-> 88, id |-> "s1", tail |-> "none"],
     [lead |-> "explorer", run |-> 88, id |-> "s2", tail |-> "none"]}

RecipientTexts == {""} \cup Pubkeys

----------------------------------------------------------------------------
(* The App *)

NoError == "null"

AppInit ==
    /\ input = [lead |-> "none", run |-> 0, id |-> "", tail |-> "none"]
    /\ recipient = ""
    /\ loading = FALSE
    /\ error = NoError
    /\ tx = Null
    /\ analysis = Null
    /\ inflight = <<>>

HarnessIdle ==
    /\ fn = "none"
    /\ meta = Null
    /\ message = Null
    /\ expected = Undefined
    /\ ret = NotCalled

Init == AppInit /\ HarnessIdle

\* onChange of the transaction field
SetInput ==
    /\ \E v \in Texts : input' = v
    /\ UNCHANGED <<recipient, loading, error, tx, analysis, inflight>>
    /\ UNCHANGED harnessVars

\* onChange of the recipient field
SetRecipient ==
    /\ \E v \in RecipientTexts : recipient' = v
    /\ UNCHANGED <<input, loading, error, tx, analysis, inflight>>
    /\ UNCHANGED harnessVars

NoSignature_Never(sig) == FALSE

\* if (!sig)
NoSignature(sig) == sig = EmptyString

ClearedAnalysis_Kept(old) == old

\* setAnalysis(null) at the start of handleFetch
ClearedAnalysis(old) == Null

ButtonDisabled_Never == FALSE

\* disabled={loading} of the button whose onClick is handleFetch
ButtonDisabled == loading

\* handleFetch up to the await; the button is disabled while loading
HandleFetch ==
    /\ ~ButtonDisabled
    /\ tx' = Null
    /\ analysis' = ClearedAnalysis(analysis)
    /\ IF NoSignature(signature)
       THEN /\ error' = "validTxLink"
            /\ UNCHANGED <<loading, inflight>>
       ELSE /\ error' = NoError
            /\ loading' = TRUE
            /\ inflight' = Append(inflight, [sig |-> signature, recipient |-> recipient])
    /\ UNCHANGED <<input, recipient>>
    /\ UNCHANGED harnessVars

\* the message of the exception that leaves the try block for outcome o of the
\* awaited call, NoError when the block completes: a rejected call, a null
\* result, a result without meta
Failure(o) ==
    IF o.kind = "throw" THEN Or(o.message, "rpcError")
    ELSE IF o.value = Null THEN "noTxOrRPC"
    ELSE IF o.value.meta = Null THEN "noMetadata"
    ELSE NoError

TxAfter_BeforeChecks(o, old) ==
    IF o.kind = "result" /\ o.value # Null THEN o.value ELSE old

\* tx after the try block: setTx(res) is reached only when nothing was thrown
TxAfter(o, old) == IF Failure(o) = NoError THEN o.value ELSE old

\* variant: setLoading(false) on the success path only, without finally
LoadingAfter_NoFinally(o) == Failure(o) # NoError

\* loading after the finally block
LoadingAfter(o) == FALSE

\* handleFetch from the await on, for a call that ends with one of outcomes:
\* the analysis, catch and finally
Resume(outcomes) ==
    /\ inflight # <<>>
    /\ \E o \in outcomes :
         LET call == Head(inflight) IN
         /\ inflight' = Tail(inflight)
         /\ loading' = LoadingAfter(o)
         /\ tx' = TxAfter(o, tx)
         /\ IF Failure(o) # NoError
            THEN /\ error' = Failure(o)
                 /\ UNCHANGED analysis
            ELSE /\ analysis' = Analysis(o.value, call.sig, call.recipient)
                 /\ UNCHANGED error
    /\ UNCHANGED <<input, recipient>>
    /\ UNCHANGED harnessVars

HandleFetchResume == Resume(Outcomes)

Next == SetInput \/ SetRecipient \/ HandleFetch \/ HandleFetchResume

Spec == Init /\ [][Next]_vars

\* the outcomes told apart by how an attempt ends: rejections, a null result,
\* a response without meta, and the responses with a read-only second key
\* (native and unclassified reports)
SettlingOutcomes ==
    {o \in Outcomes :
        IF o.kind = "throw" THEN TRUE
        ELSE IF o.value = Null THEN TRUE
        ELSE IF o.value.meta = Null THEN TRUE
        ELSE o.value \in ReadOnlyKeyResponses}

HandleFetchSettles == Resume(SettlingOutcomes)

NextSettling == SetInput \/ SetRecipient \/ HandleFetch \/ HandleFetchSettles

\* every awaited call of rpcGetTransaction settles, and handleFetch then resumes
SpecSettling == Init /\ [][NextSettling]_vars /\ WF_vars(HandleFetchSettles)

----------------------------------------------------------------------------
(* Resolver harness: one call of a resolver on one input.  The balance     *)
(* arrays given to findDeltaSOL have at most one entry per account key and *)
(* may be shorter than accountKeys, and than each other.                   *)

InitSOL ==
    /\ AppInit
    /\ fn = "findDeltaSOL"
    /\ \E pks \in SeqsUpTo(Pubkeys, MaxKeys) :
         /\ message = Message(PlainKeys(pks), <<>>)
         /\ \E pre \in SeqsUpTo(0..MaxBal, Len(pks)), post \in SeqsUpTo(0..MaxBal, Len(pks)) :
              meta = Meta(pre, post, <<>>, <<>>)
    /\ expected \in {Undefined, ""} \cup Pubkeys
    /\ ret = NotCalled

InitSPL ==
    /\ AppInit
    /\ fn = "findDeltaSPL"
    /\ \E pks \in SeqsUpTo(Pubkeys, MaxKeys) : message = Message(PlainKeys(pks), <<>>)
    /\ \E pre \in SeqsUpTo(PreEntries, MaxPre), post \in SeqsUpTo(PostEntries, MaxPost) :
         meta = Meta(<<>>, <<>>, pre, post)
    /\ expected \in {Undefined} \cup Pubkeys
    /\ ret = NotCalled

\* token balances whose raw amounts are 2^53 and more
LargeAmounts == {Pivot + d : d \in 0..MaxOffset}
LargePostEntries == {TokenBalance(i, MintAt(i), "A", a) : i \in TokenIndexes, a \in LargeAmounts}
LargePreEntries == {TokenBalance(i, MintAt(i), Undefined, a) : i \in TokenIndexes, a \in LargeAmounts}

InitSPLLarge ==
    /\ AppInit
    /\ fn = "findDeltaSPL"
    /\ message = Message(PlainKeys(<<"A", "B">>), <<>>)
    /\ \E pre \in SeqsUpTo(LargePreEntries, MaxPre), post \in SeqsUpTo(LargePostEntries, MaxPost) :
         meta = Meta(<<>>, <<>>, pre, post)
    /\ expected \in {Undefined, "A"}
    /\ ret = NotCalled

InitParties ==
    /\ AppInit
    /\ fn = "inferParties"
    /\ \E keys \in SeqsUpTo(AccountMetaKey, MaxPartyKeys) : message = Message(keys, <<>>)
    /\ meta = Meta(<<>>, <<>>, <<>>, <<>>)
    /\ expected = Undefined
    /\ ret = NotCalled

\* the texts given to parseSignature: every lead and tail with every run length
ParseTexts ==
    {[lead |-> l, run |-> n, id |-> IF n = 0 THEN "" ELSE "s", tail |-> t] :
        l \in {"none", "space", "explorer", "other"}, n \in 0..MaxRun,
        t \in {"none", "other"}}

InitParse ==
    /\ input \in ParseTexts
    /\ recipient = ""
    /\ loading = FALSE
    /\ error = NoError
    /\ tx = Null
    /\ analysis = Null
    /\ inflight = <<>>
    /\ fn = "parseSignature"
    /\ message = Message(<<>>, <<>>)
    /\ meta = Meta(<<>>, <<>>, <<>>, <<>>)
    /\ expected = Undefined
    /\ ret = NotCalled

CallFindDeltaSOL ==
    /\ fn = "findDeltaSOL" /\ ret = NotCalled
    /\ ret' = findDeltaSOL(meta, message, expected)
    /\ UNCHANGED <<fn, meta, message, expected>>
    /\ UNCHANGED appVars

CallFindDeltaSPL ==
    /\ fn = "findDeltaSPL" /\ ret = NotCalled
    /\ ret' = findDeltaSPL(meta, message, expected)
    /\ UNCHANGED <<fn, meta, message, expected>>
    /\ UNCHANGED appVars

CallInferParties ==
    /\ fn = "inferParties" /\ ret = NotCalled
    /\ ret' = inferParties(message)
    /\ UNCHANGED <<fn, meta, message, expected>>
    /\ UNCHANGED appVars

CallParseSignature ==
    /\ fn = "parseSignature" /\ ret = NotCalled
    /\ ret' = parseSignature(input)
    /\ UNCHANGED <<fn, meta, message, expected>>
    /\ UNCHANGED appVars

SpecSOL == InitSOL /\ [][CallFindDeltaSOL]_vars
SpecSPL == InitSPL /\ [][CallFindDeltaSPL]_vars
SpecParties == InitParties /\ [][CallInferParties]_vars
SpecParse == InitParse /\ [][CallParseSignature]_vars
SpecSPLLarge == InitSPLLarge /\ [][CallFindDeltaSPL]_vars

----------------------------------------------------------------------------
(* Properties of handleFetch (specification Spec) *)

\* a step of HandleFetchResume that stores a report
StoresReport == inflight # <<>> /\ inflight' = Tail(inflight) /\ analysis' # Null

\* the resolver results of the attempt that ends in this step
TokenResultOf(res, call) ==
    findDeltaSPL(res.meta, res.transaction.message, Or(call.recipient, Undefined))
NativeResultOf(res, call) ==
    findDeltaSOL(res.meta, res.transaction.message, Or(call.recipient, Undefined))

\* C1: whenever findDeltaSPL returns a result with delta > 0, the stored report
\* has asset kind SPL, whatever findDeltaSOL returns.
C1_TokenBeforeNative ==
    [][StoresReport =>
        LET spl == TokenResultOf(tx', Head(inflight)) IN
        (spl # Null /\ spl.delta > 0) => analysis'.asset.kind = "SPL"]_vars

\* a stored SPL report of a transaction in which one address has both a
\* positive token delta and a positive native delta
C1_Witness ==
    /\ analysis # Null /\ tx # Null
    /\ analysis.asset.kind = "SPL"
    /\ \E r \in Pubkeys :
         /\ analysis.recipient = r
         /\ findDeltaSOL(tx.meta, tx.transaction.message, r).deltaLamports > 0
         /\ findDeltaSPL(tx.meta, tx.transaction.message, r) # Null
         /\ findDeltaSPL(tx.meta, tx.transaction.message, r).delta > 0

\* C2: the kind is SPL exactly when the token result is present with delta > 0,
\* SOL exactly when it is not and the native delta is > 0, Unknown otherwise; a
\* report of kind SPL or SOL carries the positive delta as its amount.
C2_StrictPositivityGate ==
    [][StoresReport =>
        LET spl == TokenResultOf(tx', Head(inflight))
            sol == NativeResultOf(tx', Head(inflight))
            token == spl # Null /\ spl.delta > 0
            native == ~token /\ sol.deltaLamports > 0
            asset == analysis'.asset
        IN  /\ (asset.kind = "SPL") <=> token
            /\ (asset.kind = "SOL") <=> native
            /\ (asset.kind = "Unknown") <=> (~token /\ ~native)
            /\ asset.kind = "SPL" => asset.amount.num = spl.delta /\ asset.amount.num > 0
            /\ asset.kind = "SOL" => asset.amount.num = sol.deltaLamports /\ asset.amount.num > 0]_vars

\* a stored Unknown report of a transaction in which the recipient's own token
\* balance fell and its native balance did not change
C2_Witness ==
    /\ analysis # Null /\ tx # Null
    /\ analysis.asset.kind = "Unknown"
    /\ \E r \in Pubkeys :
         /\ findDeltaSPL(tx.meta, tx.transaction.message, r) # Null
         /\ findDeltaSPL(tx.meta, tx.transaction.message, r).delta < 0
         /\ findDeltaSOL(tx.meta, tx.transaction.message, r).index >= 0
         /\ findDeltaSOL(tx.meta, tx.transaction.message, r).deltaLamports = 0

----------------------------------------------------------------------------
(* Properties of findDeltaSOL (specification SpecSOL) *)

CalledSOL == fn = "findDeltaSOL" /\ ret # NotCalled

\* the accounts of the transaction, and the balance change of account i with a
\* missing balance entry counted as 0
Accounts == 0..(Len(message.accountKeys) - 1)
LamportsAt(arr, i) == IF i < Len(arr) THEN arr[i + 1] ELSE 0
LamportDelta(i) == LamportsAt(meta.postBalances, i) - LamportsAt(meta.preBalances, i)

Least(S) == CHOOSE x \in S : \A y \in S : x <= y

AccountsOf(addr) == {i \in Accounts : message.accountKeys[i + 1].pubkey = addr}

Aligned ==
    /\ Len(meta.preBalances) = Len(message.accountKeys)
    /\ Len(meta.postBalances) = Len(message.accountKeys)

\* C3: with a recipient that is the address of some account key, the result is
\* the first such account k with deltaLamports = post[k] - pre[k].
C3_RecipientAccountReturned ==
    (CalledSOL /\ Truthy(expected) /\ AccountsOf(expected) # {}) =>
        LET k == Least(AccountsOf(expected)) IN
        ret = [index |-> k, deltaLamports |-> LamportDelta(k)]

\* C3 on inputs whose balance arrays have one entry per account key
C3_RecipientAccountReturnedWhenAligned == Aligned => C3_RecipientAccountReturned

\* C4: with a recipient that is the address of no account key, the result is
\* the sentinel (-1, 0).
C4_UnknownRecipientGivesSentinel ==
    (CalledSOL /\ Truthy(expected) /\ AccountsOf(expected) = {}) =>
        ret = [index |-> -1, deltaLamports |-> 0]

\* the recipient is no account key while another account gained lamports
C4_Witness ==
    /\ CalledSOL /\ Truthy(expected) /\ AccountsOf(expected) = {}
    /\ \E i \in Accounts : i < Len(meta.preBalances) /\ LamportDelta(i) >= 2
    /\ ret.index = -1

\* C5: without a recipient, when some account has a positive delta, the result
\* is the first account that attains the maximum delta, with that delta.
C5_MaxDeltaAccountReturned ==
    (CalledSOL /\ ~Truthy(expected) /\ \E i \in Accounts : LamportDelta(i) > 0) =>
        LET best == {i \in Accounts : \A j \in Accounts : LamportDelta(j) <= LamportDelta(i)}
        IN  ret = [index |-> Least(best), deltaLamports |-> LamportDelta(Least(best))]

\* C5 on inputs whose balance arrays have one entry per account key
C5_MaxDeltaAccountReturnedWhenAligned == Aligned => C5_MaxDeltaAccountReturned

\* C6: without a recipient, when every account's delta is zero or negative
\* (empty arrays included), the result is the sentinel (-1, 0).
C6_NoGainGivesSentinel ==
    (CalledSOL /\ ~Truthy(expected) /\ \A i \in Accounts : LamportDelta(i) <= 0) =>
        ret = [index |-> -1, deltaLamports |-> 0]

\* no recipient, one account unchanged and one account that lost lamports
C6_Witness ==
    /\ CalledSOL /\ ~Truthy(expected)
    /\ \A i \in Accounts : LamportDelta(i) <= 0
    /\ \E i \in Accounts : i < Len(meta.preBalances) /\ LamportDelta(i) = 0
    /\ \E i \in Accounts : LamportDelta(i) < 0
    /\ ret.index = -1

----------------------------------------------------------------------------
(* Properties of findDeltaSPL (specification SpecSPL) *)

CalledSPL == fn = "findDeltaSPL" /\ ret # NotCalled

PostTok == meta.postTokenBalances
PreTok == meta.preTokenBalances

\* the pre-state amount of the account and mint of post entry j, 0 without one
PreAmountOf(j) ==
    LET same == {k \in 1..Len(PreTok) :
                    /\ PreTok[k].accountIndex = PostTok[j].accountIndex
                    /\ PreTok[k].mint = PostTok[j].mint} IN
    IF same = {} THEN 0 ELSE PreTok[CHOOSE k \in same : \A l \in same : l <= k].uiTokenAmount.amount

TokenDelta(j) == PostTok[j].uiTokenAmount.amount - PreAmountOf(j)

\* the result that describes post entry j
ResultOfEntry(j) ==
    [accountIndex |-> PostTok[j].accountIndex,
     mint         |-> PostTok[j].mint,
     decimals     |-> PostTok[j].uiTokenAmount.decimals,
     delta        |-> TokenDelta(j),
     owner        |-> PostTok[j].owner]

\* C7: without a recipient, when no post entry has a strictly positive delta
\* (no entries, all deltas 0, all deltas negative), the result is null.
C7_NoPositiveDeltaGivesNull ==
    (CalledSPL /\ ~Truthy(expected) /\ \A j \in 1..Len(PostTok) : TokenDelta(j) <= 0) =>
        ret = Null

\* no recipient, a post entry with delta 0 and a post entry with a negative delta
C7_Witness ==
    /\ CalledSPL /\ ~Truthy(expected)
    /\ \A j \in 1..Len(PostTok) : TokenDelta(j) <= 0
    /\ \E j \in 1..Len(PostTok) : TokenDelta(j) = 0
    /\ \E j \in 1..Len(PostTok) : TokenDelta(j) < 0
    /\ ret = Null

\* C8: without a recipient, when some post entry has a positive delta, the
\* result describes the first post entry that attains the maximum delta: its
\* accountIndex, mint, owner and decimals, and delta = post amount minus the
\* amount of the pre entry with the same (accountIndex, mint), or minus 0.
C8_MaxDeltaEntryReturned ==
    (CalledSPL /\ ~Truthy(expected) /\ \E j \in 1..Len(PostTok) : TokenDelta(j) > 0) =>
        LET best == {j \in 1..Len(PostTok) :
                        \A k \in 1..Len(PostTok) : TokenDelta(k) <= TokenDelta(j)}
        IN  ret = ResultOfEntry(Least(best))

\* no recipient, two post entries with the same positive delta, the first of them
\* with a pre entry of its account and mint and the result describing the first
C8_Witness ==
    /\ CalledSPL /\ ~Truthy(expected)
    /\ Len(PostTok) = 2
    /\ TokenDelta(1) = TokenDelta(2) /\ TokenDelta(1) > 0
    /\ PostTok[1] # PostTok[2]
    /\ \E k \in 1..Len(PreTok) :
         PreTok[k].accountIndex = PostTok[1].accountIndex /\ PreTok[k].mint = PostTok[1].mint
    /\ ret = ResultOfEntry(1)

\* the post entries that belong to an address: by owner or by account key
EntriesOf(addr) ==
    {j \in 1..Len(PostTok) :
        \/ PostTok[j].owner = addr
        \/ /\ PostTok[j].accountIndex < Len(message.accountKeys)
           /\ message.accountKeys[PostTok[j].accountIndex + 1].pubkey = addr}

\* C9: with a recipient, the result describes the first post entry whose owner or
\* whose account key address is the recipient, whatever the sign of its delta;
\* without such an entry the result is null.
C9_FirstRecipientEntryReturned ==
    (CalledSPL /\ Truthy(expected)) =>
        IF EntriesOf(expected) = {} THEN ret = Null
        ELSE ret = ResultOfEntry(Least(EntriesOf(expected)))

\* the recipient's first entry is the second of the list, belongs to it by
\* account key only and has a negative delta
C9_Witness ==
    /\ CalledSPL /\ Truthy(expected)
    /\ EntriesOf(expected) = {2}
    /\ PostTok[2].owner # expected
    /\ TokenDelta(2) < 0
    /\ ret = ResultOfEntry(2)

----------------------------------------------------------------------------
(* Properties of inferParties (specification SpecParties) *)

CalledParties == fn = "inferParties" /\ ret # NotCalled

WritableAfterPayer == {i \in 1..(Len(message.accountKeys) - 1) : message.accountKeys[i + 1].writable}

----------------------------------------------------------------------------
(* Properties of the handleFetch state machine (specification Spec) *)

\* C11: a null RPC result and a response whose meta is null each end the
\* attempt in the error state: the matching message is set, no transaction and
\* no analysis are stored, loading is false; and no stored transaction ever
\* lacks its meta, so no resolver is ever run on one.
C11_MissingDataEndsInError ==
    /\ error \in {"noTxOrRPC", "noMetadata"} =>
           /\ tx = Null
           /\ analysis = Null
           /\ ~loading
    /\ tx # Null => tx.meta # Null

\* a fetch answered with a response without meta has ended
C11_Witness ==
    /\ error = "noMetadata"
    /\ tx = Null
    /\ analysis = Null
    /\ ~loading
    /\ inflight = <<>>
    /\ signature # EmptyString

\* a step of handleFetch taken while the input holds no signature: the button
\* is enabled and neither field is edited
FetchWithoutSignature ==
    /\ ~loading
    /\ signature = EmptyString
    /\ UNCHANGED <<input, recipient>>

\* C12: when the input holds no signature, handleFetch sets the validation
\* error and returns: no call of rpcGetTransaction is started and loading is
\* not set to true.
C12_NoSignatureNoCall ==
    [][FetchWithoutSignature =>
        /\ error' = "validTxLink"
        /\ inflight' = inflight
        /\ ~loading']_vars

\* the validation error shown for a non-empty input that is no signature
C12_Witness ==
    /\ error = "validTxLink"
    /\ input.run > 0
    /\ signature = EmptyString
    /\ ~loading
    /\ inflight = <<>>

\* C13: the displayed state is never a stale mixture: while an error is shown
\* no transaction and no analysis are stored, and an analysis is stored only
\* together with its transaction.
C13_NoStaleMixture ==
    /\ error # NoError => (analysis = Null /\ tx = Null)
    /\ analysis # Null => tx # Null

\* a rejected call has ended with its message shown and nothing stored
C13_Witness ==
    /\ error = "Failed to fetch"
    /\ analysis = Null
    /\ tx = Null
    /\ ~loading

----------------------------------------------------------------------------
(* Properties of parseSignature (specification SpecParse) *)

CalledParse == fn = "parseSignature" /\ ret # NotCalled

\* the text is a run of base58 characters and nothing else
RawRun == input.lead = "none" /\ input.tail = "none"

\* the text ends an explorer path with a run of base58 characters
ExplorerUrl == input.lead = "explorer" /\ input.tail = "none"

\* the whole run
WholeRun == [id |-> input.id, len |-> input.run]

\* C15: parseSignature returns a raw base58 signature of any length from 84 to
\* 88 unchanged, and returns the signature of such a length that follows a
\* known explorer path.
C15_AcceptsLengths84To88 ==
    (CalledParse /\ (RawRun \/ ExplorerUrl) /\ input.run \in 84..88) => ret = WholeRun

----------------------------------------------------------------------------
(* Missing balance entries in findDeltaSOL (specification SpecSOL) *)

\* the accounts that have no entry in preBalances
BeyondPre == {k \in Accounts : k >= Len(meta.preBalances)}

\* C16: an account without an entry in preBalances is still evaluated, its
\* missing amount counted as 0: it is returned when it is the first account of
\* the recipient, and when no recipient is given and its delta is positive and
\* larger than every other account's.
C16_MissingEntriesCountAsZero ==
    CalledSOL =>
        \A k \in BeyondPre :
            /\ (/\ Truthy(expected)
                /\ AccountsOf(expected) # {}
                /\ k = Least(AccountsOf(expected)))
               => ret = [index |-> k, deltaLamports |-> LamportsAt(meta.postBalances, k)]
            /\ (/\ ~Truthy(expected)
                /\ LamportDelta(k) > 0
                /\ \A j \in Accounts \ {k} : LamportDelta(j) < LamportDelta(k))
               => ret = [index |-> k, deltaLamports |-> LamportsAt(meta.postBalances, k)]

----------------------------------------------------------------------------
(* The recipient of a report (specification Spec) *)

\* the explicit recipient of the attempt that ends in this step, if any
Explicit == Truthy(Head(inflight).recipient)

\* the raw amount of a stored asset
RawAmount(asset) == asset.amount.num

\* the token entries and the accounts of response res that belong to address addr
TokenEntriesOf(res, addr) ==
    {j \in 1..Len(res.meta.postTokenBalances) :
        \/ res.meta.postTokenBalances[j].owner = addr
        \/ PubkeyAt(res.transaction.message, res.meta.postTokenBalances[j].accountIndex) = addr}
AccountKeysOf(res, addr) ==
    {i \in 1..Len(res.transaction.message.accountKeys) :
        res.transaction.message.accountKeys[i].pubkey = addr}

\* the change of token entry j and of account i (1-based) of response res
TokenChange(res, j) ==
    LET pb == res.meta.postTokenBalances[j]
        same == {k \in 1..Len(res.meta.preTokenBalances) :
                    /\ res.meta.preTokenBalances[k].accountIndex = pb.accountIndex
                    /\ res.meta.preTokenBalances[k].mint = pb.mint}
    IN  pb.uiTokenAmount.amount
        - (IF same = {} THEN 0
           ELSE res.meta.preTokenBalances[Max(same)].uiTokenAmount.amount)
LamportChange(res, i) == res.meta.postBalances[i] - res.meta.preBalances[i]

\* C17: the recipient of a token report is the explicit recipient, else the
\* owner of the matched entry, else the address at its account index; that of
\* a native report is the explicit recipient, else the address at the matched
\* index.  With an explicit recipient the amount of a token or native report
\* is the delta of a token entry or account of that recipient.
C17_ReportRecipient ==
    [][StoresReport =>
        LET call == Head(inflight)
            msg == tx'.transaction.message
            spl == TokenResultOf(tx', call)
            sol == NativeResultOf(tx', call)
        IN
        /\ analysis'.asset.kind = "SPL" =>
             /\ analysis'.recipient =
                  IF Explicit THEN call.recipient
                  ELSE IF Truthy(spl.owner) THEN spl.owner
                  ELSE PubkeyAt(msg, spl.accountIndex)
             /\ Explicit =>
                  \E j \in TokenEntriesOf(tx', call.recipient) :
                      RawAmount(analysis'.asset) = TokenChange(tx', j)
        /\ analysis'.asset.kind = "SOL" =>
             /\ analysis'.recipient =
                  IF Explicit THEN call.recipient ELSE PubkeyAt(msg, sol.index)
             /\ Explicit =>
                  \E i \in AccountKeysOf(tx', call.recipient) :
                      /\ i <= Len(tx'.meta.preBalances)
                      /\ i <= Len(tx'.meta.postBalances)
                      /\ RawAmount(analysis'.asset) = LamportChange(tx', i)]_vars

\* a token report whose matched entry names no owner: the recipient is the
\* address at the entry's account index
C17_Witness ==
    /\ analysis # Null
    /\ analysis.asset.kind = "SPL"
    /\ LET spl == findDeltaSPL(tx.meta, tx.transaction.message, Undefined) IN
       /\ spl # Null
       /\ spl.owner = Undefined
       /\ spl.accountIndex = 1
       /\ analysis.recipient = "B"
    /\ \A j \in 1..Len(tx.meta.postTokenBalances) :
          tx.meta.postTokenBalances[j].owner = Undefined

\* C18: when neither the token nor the native result is positive the stored
\* asset is Unknown with no amount, mint or decimals, and the recipient is the
\* address of the first writable key after key 0, absent without such a key,
\* whether or not an explicit recipient was given.
C18_UnknownReport ==
    [][StoresReport =>
        LET call == Head(inflight)
            msg == tx'.transaction.message
            spl == TokenResultOf(tx', call)
            sol == NativeResultOf(tx', call)
            writable == {i \in 2..Len(msg.accountKeys) : msg.accountKeys[i].writable}
        IN
        (~(spl # Null /\ spl.delta > 0) /\ ~(sol.deltaLamports > 0)) =>
            /\ analysis'.asset = [kind |-> "Unknown"]
            /\ analysis'.recipient =
                 IF writable = {} THEN Undefined
                 ELSE msg.accountKeys[Least(writable)].pubkey]_vars

\* an Unknown report of a transaction with two keys, the second read-only: the
\* recipient is absent although the recipient field holds an address
C18_Witness ==
    /\ analysis # Null
    /\ analysis.asset = [kind |-> "Unknown"]
    /\ Len(tx.transaction.message.accountKeys) = 2
    /\ ~tx.transaction.message.accountKeys[2].writable
    /\ analysis.recipient = Undefined
    /\ recipient = "B"

----------------------------------------------------------------------------
(* The sender of a report (specification Spec) *)

\* instruction ix carries a source, authority or owner field
CarriesSender(ix) ==
    /\ ix.parsed # Null
    /\ ix.parsed.info # Null
    /\ \/ Truthy(ix.parsed.info.source)
       \/ Truthy(ix.parsed.info.authority)
       \/ Truthy(ix.parsed.info.owner)

\* C19: the sender is taken from the first instruction, in order, that carries
\* a source, authority or owner field (source before authority before owner);
\* it is the address of key 0 only when no instruction carries one or the
\* message has no instructions array.  An earlier instruction whose parsed.info
\* has none of the three fields does not hide a later one that has.
C19_SenderFromFirstCarrier ==
    analysis # Null =>
        LET msg == tx.transaction.message
            ixs == IF "instructions" \in DOMAIN msg THEN msg.instructions ELSE <<>>
            carriers == {j \in 1..Len(ixs) : CarriesSender(ixs[j])}
        IN  analysis.sender =
                IF carriers = {} THEN PubkeyAt(msg, 0)
                ELSE LET info == ixs[Least(carriers)].parsed.info IN
                     IF Truthy(info.source) THEN info.source
                     ELSE IF Truthy(info.authority) THEN info.authority
                     ELSE info.owner

----------------------------------------------------------------------------
(* Large token amounts in findDeltaSPL (specification SpecSPLLarge) *)

\* the post entries with the largest exact delta
LargestGain == {j \in 1..Len(PostTok) : \A k \in 1..Len(PostTok) : TokenDelta(k) <= TokenDelta(j)}

\* C20: for raw amounts within the signed 64-bit range, above 2^53 included,
\* findDeltaSPL computes with the exact integers: the delta it returns is the
\* exact difference post - pre, and without a recipient it returns an entry
\* exactly when some exact difference is positive, one with the largest.
C20_ExactDeltas ==
    CalledSPL =>
        /\ (Truthy(expected) /\ EntriesOf(expected) # {}) =>
               ret.delta = TokenDelta(Least(EntriesOf(expected)))
        /\ ~Truthy(expected) =>
               IF \E j \in 1..Len(PostTok) : TokenDelta(j) > 0
               THEN ret # Null /\ ret.delta = TokenDelta(Least(LargestGain))
               ELSE ret = Null

----------------------------------------------------------------------------
(* The token short-circuit (specification Spec) *)

\* the first token entry of response res that belongs to address addr does not
\* show a gain
FirstEntryWithoutGain(res, addr) ==
    /\ TokenEntriesOf(res, addr) # {}
    /\ TokenChange(res, Least(TokenEntriesOf(res, addr))) <= 0

\* C21: with an explicit recipient whose first matching post entry has a zero
\* or negative delta, findDeltaSPL returns that entry, whatever later entries
\* of the recipient gained, and the stored report is not a token report.
C21_TokenShortCircuit ==
    [][StoresReport =>
        LET call == Head(inflight)
            spl == TokenResultOf(tx', call)
        IN
        (Explicit /\ FirstEntryWithoutGain(tx', call.recipient)) =>
            LET first == tx'.meta.postTokenBalances[Least(TokenEntriesOf(tx', call.recipient))] IN
            /\ spl # Null
            /\ spl.accountIndex = first.accountIndex
            /\ spl.mint = first.mint
            /\ spl.delta = TokenChange(tx', Least(TokenEntriesOf(tx', call.recipient)))
            /\ analysis'.asset.kind # "SPL"]_vars

\* a stored report that is not a token report although a later entry of "A"
\* gained tokens: the first entry of "A" did not, and without a recipient the
\* gain would have made it a token report
C21_Witness ==
    /\ analysis # Null
    /\ analysis.asset.kind # "SPL"
    /\ FirstEntryWithoutGain(tx, "A")
    /\ \E j \in TokenEntriesOf(tx, "A") : TokenChange(tx, j) > 0
    /\ IsToken(findDeltaSPL(tx.meta, tx.transaction.message, Undefined))

----------------------------------------------------------------------------
(* One fetch at a time (specification Spec) *)

\* C22: at most one call of rpcGetTransaction is outstanding, loading is true
\* for as long as one is, and a call is started only while loading is false.
C22_OneFetchAtATime ==
    /\ [](Len(inflight) <= 1 /\ (inflight # <<>> => loading))
    /\ [][Len(inflight') > Len(inflight) => ~loading]_vars

\* a call is outstanding while the input already holds another text
C22_Witness ==
    /\ Len(inflight) = 1
    /\ loading
    /\ signature # inflight[1].sig

----------------------------------------------------------------------------
(* Every attempt ends (specification SpecSettling) *)

\* the step in which an attempt ends
AttemptEnds == loading /\ ~loading'

\* C23: an attempt starts at most one call and the step that ends it starts
\* none; it ends with either a report or an error stored, never both and never
\* neither; when every call settles, loading becomes false again after it was
\* set; and the error of a rejection with an empty message is the fallback
\* message, never the empty text.
C23_AttemptsAreTerminal ==
    /\ [][Len(inflight') <= Len(inflight) + 1]_vars
    /\ [][AttemptEnds =>
            /\ inflight' = <<>>
            /\ (error' # NoError) # (analysis' # Null)
            /\ error' # ""]_vars
    /\ []<>~loading

\* a rejection with an empty message has ended an attempt
C23_Witness ==
    /\ error = "rpcError"
    /\ ~loading
    /\ inflight = <<>>
    /\ analysis = Null

----------------------------------------------------------------------------
(* Invalid input of parseSignature (specification SpecParse) *)

\* the text is empty or white space
Blank == input.lead \in {"none", "space"} /\ input.run = 0 /\ input.tail = "none"

\* the text is raw, with or without white space around it, and holds a
\* character outside the base58 alphabet
RawWithForeignCharacter ==
    \/ input.lead = "other"
    \/ input.lead \in {"none", "space"} /\ input.tail = "other"

\* the text is a run of base58 characters shorter than every signature or
\* longer than SigMaxLen
RawOfWrongLength ==
    /\ input.lead \in {"none", "space"}
    /\ input.tail = "none"
    /\ (input.run < 84 \/ input.run > SigMaxLen)

\* C24: parseSignature returns null for an empty or blank text, for a raw text
\* with a character outside the base58 alphabet and for a raw base58 text
\* shorter than the minimum or longer than 88 characters; a signature it
\* returns is never a proper prefix of the run it was taken from.
C24_InvalidInputGivesNull ==
    CalledParse =>
        /\ (Blank \/ RawWithForeignCharacter \/ RawOfWrongLength) => ret = Null
        /\ ret # Null => ret.len = input.run

----------------------------------------------------------------------------
(* The signer flag in inferParties (specification SpecParties) *)

\* the keys after the fee payer that are writable and do not sign (0-based)
WritableNonSigners ==
    {i \in WritableAfterPayer : ~message.accountKeys[i + 1].signer}

\* C25: the recipient returned by inferParties is the address of the first
\* writable non-signer key after the fee payer, absent without such a key; it
\* is never taken from a key whose signer flag is true.
C25_RecipientIsNoSigner ==
    CalledParties =>
        ret.recipient = IF WritableNonSigners = {} THEN Undefined
                        ELSE message.accountKeys[Least(WritableNonSigners) + 1].pubkey

----------------------------------------------------------------------------
(* The result of findDeltaSOL without a recipient (specification SpecSOL) *)

\* C26: without a recipient the result of findDeltaSOL has deltaLamports >= 0
\* and index = -1 exactly when deltaLamports = 0; an index >= 0 is an index
\* of preBalances, and deltaLamports is then postBalances[index] (0 when
\* missing) minus preBalances[index], a positive number.
C26_ResultWithoutRecipient ==
    (CalledSOL /\ ~Truthy(expected)) =>
        /\ ret.deltaLamports >= 0
        /\ (ret.index = -1) <=> (ret.deltaLamports = 0)
        /\ ret.index >= 0 =>
             /\ ret.index < Len(meta.preBalances)
             /\ ret.deltaLamports =
                  LamportsAt(meta.postBalances, ret.index) - meta.preBalances[ret.index + 1]
             /\ ret.deltaLamports > 0

\* an account inside preBalances is returned although an account with a
\* balance entry only in postBalances received lamports
C26_Witness ==
    /\ CalledSOL /\ ~Truthy(expected)
    /\ ret.index >= 0
    /\ Len(meta.postBalances) > Len(meta.preBalances)
    /\ meta.postBalances[Len(meta.postBalances)] > ret.deltaLamports

----------------------------------------------------------------------------
(* The shape of a stored report (specification Spec) *)

\* C27: a stored analysis has asset kind SOL, SPL or Unknown.  SOL carries an
\* amount > 0 and nothing else; SPL carries an amount > 0 with the mint and
\* the decimals of the matched post entry; Unknown carries nothing.  Its
\* signature and explorerUrl are those of the signature the attempt started
\* with, its slot and feeLamports those of the response of that attempt.
C27_ReportShape ==
    [][StoresReport =>
        LET call == Head(inflight)
            asset == analysis'.asset
        IN
        /\ asset.kind \in {"SOL", "SPL", "Unknown"}
        /\ asset.kind = "SOL" =>
             /\ DOMAIN asset = {"kind", "amount"}
             /\ RawAmount(asset) > 0
             /\ asset.amount.den = LAMPORTS_PER_SOL
        /\ asset.kind = "SPL" =>
             /\ DOMAIN asset = {"kind", "mint", "amount", "decimals"}
             /\ RawAmount(asset) > 0
             /\ asset.amount.den = Pow10(asset.decimals)
             /\ \E j \in 1..Len(tx'.meta.postTokenBalances) :
                   /\ tx'.meta.postTokenBalances[j].mint = asset.mint
                   /\ tx'.meta.postTokenBalances[j].uiTokenAmount.decimals = asset.decimals
                   /\ TokenChange(tx', j) = RawAmount(asset)
        /\ asset.kind = "Unknown" => DOMAIN asset = {"kind"}
        /\ analysis'.signature = call.sig
        /\ analysis'.explorerUrl = <<"https://solscan.io/tx/", call.sig>>
        /\ analysis'.slot = tx'.slot
        /\ analysis'.feeLamports = tx'.meta.fee]_vars

\* a token report is shown for one signature while the input holds another
C27_Witness ==
    /\ analysis # Null
    /\ analysis.asset.kind = "SPL"
    /\ analysis.signature = [id |-> "s1", len |-> 88]
    /\ signature = [id |-> "s2", len |-> 88]
    /\ analysis.slot = tx.slot

====
